---------------------------- MODULE Spec2Model ----------------------------
(***************************************************************************)
(* The editable CSV view of obsidian-csv-document (class CSVView, the      *)
(* variant with the draft row: src/unnamed/part_000 lines 307-812).        *)
(*                                                                         *)
(* A text is a sequence of one-character strings, so that quoting,         *)
(* delimiters and line endings are handled character by character as the   *)
(* delimited-text library (papaparse) handles them.                        *)
(***************************************************************************)
EXTENDS Integers, Sequences, FiniteSets, TLC

(***************************************************************************)
(* Bounds of the model.                                                    *)
(***************************************************************************)
MaxLoads == 1
MaxSessions == 2
MaxMoves == 2
MaxRows == 2
MaxOlderLoads == 2

(***************************************************************************)
(* Characters.                                                             *)
(***************************************************************************)
DELIM == ","
QUOTE == "\""
LF == "\n"
CR == "\r"
SPACE == " "

CRLF == <<CR, LF>>


(***************************************************************************)
(* String.prototype.trim() !== "" : some character is not white space.     *)
(***************************************************************************)
IsWhite(ch) == ch \in {SPACE, LF, CR}

\* the test without trim(): only the empty text is blank
IsEmptyText(v) == v = <<>>

TrimIsEmpty(v) == \A i \in 1..Len(v) : IsWhite(v[i])

(***************************************************************************)
(* Generic helpers on sequences.                                           *)
(***************************************************************************)
RECURSIVE Flatten(_, _)
Flatten(parts, sep) ==
    IF Len(parts) = 0 THEN <<>>
    ELSE IF Len(parts) = 1 THEN parts[1]
    ELSE parts[1] \o sep \o Flatten(Tail(parts), sep)

Contains(v, ch) == \E i \in 1..Len(v) : v[i] = ch

StartsAt(text, i, pat) ==
    /\ Len(pat) > 0
    /\ i + Len(pat) - 1 <= Len(text)
    /\ SubSeq(text, i, i + Len(pat) - 1) = pat

(***************************************************************************)
(* Papa.unparse: a value is wrapped in quotes when it holds the delimiter, *)
(* a quote, a line break, or starts or ends with a space; quotes inside    *)
(* are doubled.                                                            *)
(***************************************************************************)
NeedsQuotes(v) ==
    \/ Contains(v, DELIM)
    \/ Contains(v, QUOTE)
    \/ Contains(v, LF)
    \/ Contains(v, CR)
    \/ (Len(v) > 0 /\ (v[1] = SPACE \/ v[Len(v)] = SPACE))

RECURSIVE DoubleQuotes(_)
DoubleQuotes(v) ==
    IF Len(v) = 0 THEN <<>>
    ELSE (IF v[1] = QUOTE THEN <<QUOTE, QUOTE>> ELSE <<v[1]>>)
         \o DoubleQuotes(Tail(v))

Safe(v) ==
    IF NeedsQuotes(v) THEN <<QUOTE>> \o DoubleQuotes(v) \o <<QUOTE>> ELSE v

(***************************************************************************)
(* A row object: its own keys in insertion order, and a value per key.     *)
(* A key the object lacks reads as undefined, which unparse writes as the  *)
(* empty string.                                                           *)
(***************************************************************************)
KeysOf(row) == row.keys

FieldOf(row, f) == IF f \in DOMAIN row.val THEN row.val[f] ELSE <<>>

UnparseRow(fields, row) ==
    Flatten([i \in 1..Len(fields) |-> Safe(FieldOf(row, fields[i]))], <<DELIM>>)

(***************************************************************************)
(* Papa.unparse(data) for an array of objects: the columns are the keys of *)
(* the FIRST object; no object, no header and no text at all.              *)
(***************************************************************************)
Unparse(data) ==
    IF Len(data) = 0 THEN <<>>
    ELSE LET fields == KeysOf(data[1])
             header == Flatten([i \in 1..Len(fields) |-> Safe(fields[i])], <<DELIM>>)
             lines == <<header>> \o [r \in 1..Len(data) |-> UnparseRow(fields, data[r])]
         IN Flatten(lines, CRLF)

(***************************************************************************)
(* Papa.parse: line-ending guess. Quoted stretches are ignored; LF when no *)
(* CR occurs or LF comes first; otherwise CRLF when at least half of the   *)
(* CR-separated pieces start with LF, else CR.                             *)
(***************************************************************************)
RECURSIVE StripQuoted(_, _)
StripQuoted(text, inq) ==
    IF Len(text) = 0 THEN <<>>
    ELSE IF text[1] = QUOTE THEN StripQuoted(Tail(text), ~inq)
    ELSE IF inq THEN StripQuoted(Tail(text), inq)
    ELSE <<text[1]>> \o StripQuoted(Tail(text), inq)

GuessLineEndings(text) ==
    LET t == StripQuoted(text, FALSE)
        crs == {i \in 1..Len(t) : t[i] = CR}
        lfs == {i \in 1..Len(t) : t[i] = LF}
        firstOf(S) == CHOOSE i \in S : \A j \in S : i <= j
        nFirst == lfs # {} /\ (crs = {} \/ firstOf(lfs) < firstOf(crs))
        withN == Cardinality({i \in crs : i < Len(t) /\ t[i + 1] = LF})
    IN IF crs = {} \/ nFirst THEN <<LF>>
       ELSE IF 2 * withN >= Cardinality(crs) + 1 THEN CRLF
       ELSE <<CR>>

(***************************************************************************)
(* The parser proper. ReadQuoted scans a quoted field from the character   *)
(* after its opening quote and returns the value and the position after    *)
(* the closing quote; a doubled quote is one quote of the value.           *)
(***************************************************************************)
RECURSIVE ReadQuoted(_, _, _)
ReadQuoted(text, i, acc) ==
    IF i > Len(text) THEN [val |-> acc, next |-> i]
    ELSE IF text[i] = QUOTE
         THEN IF i + 1 <= Len(text) /\ text[i + 1] = QUOTE
              THEN ReadQuoted(text, i + 2, Append(acc, QUOTE))
              ELSE [val |-> acc, next |-> i + 1]
         ELSE ReadQuoted(text, i + 1, Append(acc, text[i]))

RECURSIVE ReadPlain(_, _, _, _)
ReadPlain(text, i, nl, acc) ==
    IF i > Len(text) \/ text[i] = DELIM \/ StartsAt(text, i, nl)
    THEN [val |-> acc, next |-> i]
    ELSE ReadPlain(text, i + 1, nl, Append(acc, text[i]))

(***************************************************************************)
(* Records(text, i, nl, row, rows): the records of text from field start i.*)
(* The end of the input closes the current field and record.               *)
(***************************************************************************)
RECURSIVE Records(_, _, _, _, _)
Records(text, i, nl, row, rows) ==
    LET quoted == i <= Len(text) /\ text[i] = QUOTE
        q == ReadQuoted(text, i + 1, <<>>)
        \* characters between a closing quote and the next separator are skipped
        f == IF quoted
             THEN [val |-> q.val, next |-> ReadPlain(text, q.next, nl, <<>>).next]
             ELSE ReadPlain(text, i, nl, <<>>)
        j == f.next
    IN IF j > Len(text) THEN Append(rows, Append(row, f.val))
       ELSE IF text[j] = DELIM
            THEN Records(text, j + 1, nl, Append(row, f.val), rows)
            ELSE Records(text, j + Len(nl), nl, <<>>, Append(rows, Append(row, f.val)))

IsEmptyLine(rec) == Len(rec) = 1 /\ rec[1] = <<>>

SkipEmptyLines(recs) == SelectSeq(recs, LAMBDA rec : ~IsEmptyLine(rec))

Min(a, b) == IF a < b THEN a ELSE b

(***************************************************************************)
(* A parsed record as a row object under the header: key j gets cell j. A  *)
(* record shorter than the header lacks the later keys.                    *)
(***************************************************************************)
RowObject(fields, rec) ==
    LET n == Min(Len(fields), Len(rec))
    IN [keys |-> SubSeq(fields, 1, n),
        val |-> [f \in {fields[j] : j \in 1..n} |->
                   rec[CHOOSE j \in 1..n : fields[j] = f]]]

(***************************************************************************)
(* Papa.parse(text, {header: true, skipEmptyLines: true}): the result's    *)
(* meta.fields and data.                                                   *)
(***************************************************************************)
Parse(text) ==
    LET recs == IF Len(text) = 0 THEN <<>>
                ELSE SkipEmptyLines(Records(text, 1, GuessLineEndings(text), <<>>, <<>>))
    IN IF Len(recs) = 0 THEN [fields |-> <<>>, data |-> <<>>]
       ELSE [fields |-> recs[1],
             data |-> [r \in 1..(Len(recs) - 1) |-> RowObject(recs[1], recs[r + 1])]]

(***************************************************************************)
(* Inputs of the model: the texts the host loads, the texts a user types,  *)
(* the pointer positions and laid-out widths of a column drag.             *)
(***************************************************************************)
A == <<"a">>
B == <<"b">>

LoadTexts ==
    { <<>>,
      <<"a", ",", "b", LF>>,
      <<"a", LF, "1", LF>>,
      <<"a", ",", "b", LF, "1", ",", "2", LF>>,
      <<"a", ",", "b", LF, "1", ",", "2", LF, "3", ",", "4", LF>> }

\* the texts loaded where columns are dragged
ResizeLoadTexts ==
    { <<"a", ",", "b", LF>>,
      <<"a", LF, "1", LF, "3", LF>> }

TypedValues == { <<>>, <<SPACE>>, <<"5">>, <<"9">> }

StartXs == {100}
PageXs == {40, 120}
OffsetWidths == {80, 120}

VARIABLES
    fileText,   \* the text given to the last setViewData
    csvData,    \* this.csvData: Undefined, or the last parse's meta.fields and data
    edited,     \* a commit changed the Table since the last setViewData
    header,     \* style.width of each th of the header row (0: not set)
    grid,       \* the rows of tbody, in document order
    mat,        \* where renderTable's data-row loop is suspended
    reb,        \* where rebuildRowWithMarkdown's loop is suspended
    pending,    \* renderMarkdownWithLinks calls in flight, in call order
    focus,      \* the focused editable cell <<row view, column>>, or None
    drag,       \* the column drag in progress (document listeners attached)
    saves,      \* number of calls of requestSave
    dirty,      \* the Table was mutated and requestSave not called since
    loads,      \* number of calls of setViewData
    sessions,   \* number of times the user put the caret into a cell
    typed,      \* the user changed the text since the caret was put
    moves,      \* number of drag-moves
    rt          \* the codec round trip in progress (SpecCodec only)

vars == <<fileText, csvData, edited, header, grid, mat, reb, pending, focus, drag, saves, dirty,
          loads, sessions, typed, moves, rt>>

uiVars == <<fileText, csvData, edited, header, grid, mat, reb, pending, focus, drag, saves, dirty,
            loads, sessions, typed, moves>>

\* this.csvData before the first renderTable
Undefined == [defined |-> FALSE, fields |-> <<>>, data |-> <<>>]

None == <<0, 0>>
MatIdle == [active |-> FALSE, rowIndex |-> 0, colIndex |-> 0, row |-> 0, view |-> 0]
RebIdle == [active |-> FALSE, colIndex |-> 0, row |-> 0, view |-> 0]
NoDrag == [active |-> FALSE, col |-> 0, startX |-> 0, startWidth |-> 0, pageX |-> 0]
RtIdle == [phase |-> "idle"]

(***************************************************************************)
(* The Table.                                                              *)
(***************************************************************************)
Loaded == csvData # Undefined
Fields == IF Loaded THEN csvData.fields ELSE <<>>
Data == IF Loaded THEN csvData.data ELSE <<>>

RowById(data, id) == data[CHOOSE i \in 1..Len(data) : data[i].id = id]
IndexOfId(data, id) == CHOOSE i \in 1..Len(data) : data[i].id = id

\* String(row[field]): a key the object lacks reads as the text "undefined"
StringOf(row, f) ==
    IF f \in DOMAIN row.val THEN row.val[f]
    ELSE <<"u", "n", "d", "e", "f", "i", "n", "e", "d">>

Rendered(text) == <<"md", text>>

(***************************************************************************)
(* getViewData.                                                            *)
(***************************************************************************)
\* without the guard, reading .data of undefined throws
GetViewDataUnguarded ==
    IF csvData = Undefined THEN <<"TypeError">> ELSE Unparse(csvData.data)

GetViewData == IF csvData # Undefined THEN Unparse(csvData.data) ELSE <<>>

(***************************************************************************)
(* Cells and rows of the grid.                                             *)
(***************************************************************************)
DraftCell == [text |-> <<>>, edit |-> TRUE, md |-> <<>>, ready |-> TRUE, width |-> 0]

\* a data cell right after its creation: both surfaces present, render in
\* flight, no listeners yet
NewCell(v) == [text |-> v, edit |-> TRUE, md |-> <<>>, ready |-> FALSE, width |-> 0]

DraftRow(kind, n) ==
    [kind |-> kind, rowIndex |-> -1, obj |-> 0, cells |-> [c \in 1..n |-> DraftCell]]

IsDraft(rv) == rv.kind \in {"draft0", "draftN"}

NewRows(g) == {r \in 1..Len(g) : IsDraft(g[r])}

RenderCall(cont, view, col, text) ==
    [cont |-> cont, view |-> view, col |-> col, text |-> text]

RemoveAt(seq, k) == SubSeq(seq, 1, k - 1) \o SubSeq(seq, k + 1, Len(seq))

\* the continuations of a detached grid: a data-cell commit's still calls
\* requestSave; the loops only build detached nodes
Orphans(p) ==
    [i \in 1..Len(SelectSeq(p, LAMBDA x : x.cont \in {"blur", "orphan"})) |->
        [SelectSeq(p, LAMBDA x : x.cont \in {"blur", "orphan"})[i] EXCEPT !.cont = "orphan"]]

(***************************************************************************)
(* setViewData(data) = renderTable(data), up to its first await.           *)
(***************************************************************************)
SetViewData(data) ==
    LET res == Parse(data)
        rows == [i \in 1..Len(res.data) |->
                    [id |-> i, keys |-> res.data[i].keys, val |-> res.data[i].val]]
        n == Len(res.fields)
        hasRows == Len(rows) > 0 /\ n > 0
        first == [kind |-> "data", rowIndex |-> 0, obj |-> 1,
                  cells |-> <<NewCell(StringOf(rows[1], res.fields[1]))>>]
    IN /\ loads < MaxLoads
       /\ loads' = loads + 1
       /\ fileText' = data
       /\ csvData' = [defined |-> TRUE, fields |-> res.fields, data |-> rows]
       /\ edited' = FALSE
       /\ header' = [c \in 1..n |-> 0]
       /\ grid' = IF hasRows THEN <<DraftRow("draft0", n), first>>
                  ELSE <<DraftRow("draft0", n)>>
       /\ mat' = IF hasRows
                 THEN [active |-> TRUE, rowIndex |-> 0, colIndex |-> 0, row |-> 1, view |-> 2]
                 ELSE MatIdle
       /\ reb' = RebIdle
       /\ pending' = Orphans(pending) \o
                     (IF hasRows
                      THEN <<RenderCall("mat", 2, 1, StringOf(rows[1], res.fields[1]))>>
                      ELSE <<>>)
       /\ focus' = None
       /\ drag' = NoDrag
       /\ dirty' = FALSE
       /\ typed' = FALSE
       /\ UNCHANGED <<saves, sessions, moves>>

Load == \E data \in LoadTexts : SetViewData(data) /\ UNCHANGED rt

LoadForResize == \E data \in ResizeLoadTexts : SetViewData(data) /\ UNCHANGED rt

(***************************************************************************)
(* clear(): empties the content element and nothing else.                  *)
(***************************************************************************)
Clear ==
    /\ Loaded
    /\ grid # <<>>
    /\ grid' = <<>>
    /\ header' = <<>>
    /\ mat' = MatIdle
    /\ reb' = RebIdle
    /\ pending' = Orphans(pending)
    /\ focus' = None
    /\ typed' = FALSE
    /\ drag' = NoDrag
    /\ UNCHANGED <<fileText, csvData, edited, saves, dirty, loads, sessions, moves, rt>>

(***************************************************************************)
(* The formatted-text renderer resolves: the rendering is appended to the  *)
(* markdown surface of the cell.                                           *)
(***************************************************************************)
ShowRendered(g, p, ready) ==
    [g EXCEPT ![p.view].cells[p.col] =
        [@ EXCEPT !.md = Append(@, Rendered(p.text)), !.edit = FALSE, !.ready = ready]]

\* hiding the focused edit surface takes the caret away
DropFocus(p) == IF focus = <<p.view, p.col>> THEN None ELSE focus

(***************************************************************************)
(* renderTable resumes after the await of a data cell (lines 474-541):     *)
(* hides the edit surface, attaches the cell's listeners, then goes on to  *)
(* the next cell, or to the next index below result.data.length.           *)
(***************************************************************************)
MatRendered(k) ==
    LET p == pending[k]
        g == ShowRendered(grid, p, TRUE)
        rest == RemoveAt(pending, k)
        c == mat.colIndex + 1
        r == mat.rowIndex + 1
    IN /\ p.cont = "mat"
       /\ IF c < Len(Fields)
          THEN LET v == StringOf(RowById(Data, mat.row), Fields[c + 1])
               IN /\ grid' = [g EXCEPT ![mat.view].cells = Append(@, NewCell(v))]
                  /\ mat' = [mat EXCEPT !.colIndex = c]
                  /\ pending' = Append(rest, RenderCall("mat", mat.view, c + 1, v))
          ELSE IF r < Len(Data)
          THEN LET row == Data[r + 1]
                   v == StringOf(row, Fields[1])
               IN /\ grid' = Append(g, [kind |-> "data", rowIndex |-> r, obj |-> row.id,
                                        cells |-> <<NewCell(v)>>])
                  /\ mat' = [active |-> TRUE, rowIndex |-> r, colIndex |-> 0,
                             row |-> row.id, view |-> Len(grid) + 1]
                  /\ pending' = Append(rest, RenderCall("mat", Len(grid) + 1, 1, v))
          ELSE /\ grid' = g
               /\ mat' = MatIdle
               /\ pending' = rest
       /\ UNCHANGED <<fileText, csvData, edited, header, reb, focus, drag, saves, dirty, loads, sessions, typed, moves, rt>>

(***************************************************************************)
(* rebuildRowWithMarkdown resumes after its await (lines 684-702): hides   *)
(* the edit surface, attaches dblclick only, goes on to the next field.    *)
(***************************************************************************)
RebuildRendered(k) ==
    LET p == pending[k]
        g == ShowRendered(grid, p, TRUE)
        rest == RemoveAt(pending, k)
        c == reb.colIndex + 1
    IN /\ p.cont = "reb"
       /\ IF c < Len(Fields)
          THEN LET v == StringOf(RowById(Data, reb.row), Fields[c + 1])
               IN /\ grid' = [g EXCEPT ![reb.view].cells = Append(@, NewCell(v))]
                  /\ reb' = [reb EXCEPT !.colIndex = c]
                  /\ pending' = Append(rest, RenderCall("reb", reb.view, c + 1, v))
          ELSE /\ grid' = g
               /\ reb' = RebIdle
               /\ pending' = rest
       /\ UNCHANGED <<fileText, csvData, edited, header, mat, focus, drag, saves, dirty, loads, sessions, typed, moves, rt>>

(***************************************************************************)
(* The data-cell blur handler resumes after its await (lines 502-507):     *)
(* back to the markdown surface, then requestSave.                         *)
(***************************************************************************)
BlurRendered(k) ==
    LET p == pending[k]
    IN /\ p.cont = "blur"
       /\ grid' = ShowRendered(grid, p, TRUE)
       /\ focus' = DropFocus(p)
       /\ typed' = (typed /\ focus' # None)
       /\ pending' = RemoveAt(pending, k)
       /\ saves' = saves + 1
       /\ dirty' = FALSE
       /\ UNCHANGED <<fileText, csvData, edited, header, mat, reb, drag, loads, sessions, moves, rt>>

\* the same continuation once its grid was detached by a reload or clear
OrphanRendered(k) ==
    LET p == pending[k]
    IN /\ p.cont = "orphan"
       /\ pending' = RemoveAt(pending, k)
       /\ saves' = saves + 1
       /\ dirty' = FALSE
       /\ UNCHANGED <<fileText, csvData, edited, header, grid, mat, reb, focus, drag, loads, sessions, typed, moves, rt>>

(***************************************************************************)
(* The renderer rejects: the awaiting function ends there. A loop builds   *)
(* no further cell; a blur handler neither toggles back nor calls          *)
(* requestSave.                                                            *)
(***************************************************************************)
RenderFailed(k) ==
    LET p == pending[k]
    IN /\ pending' = RemoveAt(pending, k)
       /\ mat' = IF p.cont = "mat" THEN MatIdle ELSE mat
       /\ reb' = IF p.cont = "reb" THEN RebIdle ELSE reb
       /\ UNCHANGED <<fileText, csvData, edited, header, grid, focus, drag, saves, dirty, loads, sessions, typed, moves, rt>>

(***************************************************************************)
(* addNewEmptyRow: a draft row appended to tbody; its cells get a focus    *)
(* listener only.                                                          *)
(***************************************************************************)
AddNewEmptyRow(g, fields) == Append(g, DraftRow("draftN", Len(fields)))

(***************************************************************************)
(* The focus listener of a draft cell (lines 377-384 and 652-659).         *)
(***************************************************************************)
\* a focus listener that spawns without counting the draft rows
OnDraftFocusAlways(g) == AddNewEmptyRow(g, Fields)

OnDraftFocus(g) ==
    IF Cardinality(NewRows(g)) = 1 THEN AddNewEmptyRow(g, Fields) ELSE g

Focusable(r, c) ==
    /\ r \in 1..Len(grid)
    /\ c \in 1..Len(grid[r].cells)
    /\ grid[r].cells[c].ready
    /\ grid[r].cells[c].edit

\* the user puts the caret into a visible edit surface
FocusCell(r, c) ==
    /\ focus = None
    /\ Focusable(r, c)
    /\ sessions < MaxSessions
    /\ sessions' = sessions + 1
    /\ typed' = FALSE
    /\ focus' = <<r, c>>
    /\ grid' = IF IsDraft(grid[r]) THEN OnDraftFocus(grid) ELSE grid
    /\ UNCHANGED <<fileText, csvData, edited, header, mat, reb, pending, drag, saves, dirty, loads, moves, rt>>

\* the user edits the text of the focused edit surface; no listener sees
\* the single keystrokes, so one step stands for the whole input
TypeText(v) ==
    /\ focus # None
    /\ ~typed
    /\ grid[focus[1]].cells[focus[2]].text # v
    /\ typed' = TRUE
    /\ grid' = [grid EXCEPT ![focus[1]].cells[focus[2]].text = v]
    /\ UNCHANGED <<fileText, csvData, edited, header, mat, reb, pending, focus, drag, saves, dirty, loads, sessions, moves, rt>>

(***************************************************************************)
(* dblclick on a data cell (lines 481-488, 691-698).                       *)
(***************************************************************************)
DblClick(r, c) ==
    /\ focus = None
    /\ r \in 1..Len(grid)
    /\ c \in 1..Len(grid[r].cells)
    /\ grid[r].kind \in {"data", "rebuilt"}
    /\ grid[r].cells[c].ready
    /\ ~grid[r].cells[c].edit
    /\ sessions < MaxSessions
    /\ sessions' = sessions + 1
    /\ typed' = FALSE
    /\ grid' = [grid EXCEPT ![r].cells[c].edit = TRUE]
    /\ focus' = <<r, c>>
    /\ UNCHANGED <<fileText, csvData, edited, header, mat, reb, pending, drag, saves, dirty, loads, moves, rt>>

(***************************************************************************)
(* isRowFilledOut (lines 620-632): TRUE as soon as ONE cell has content.   *)
(***************************************************************************)
IsRowFilledOut(cells) == \E c \in 1..Len(cells) : ~TrimIsEmpty(cells[c].text)

(***************************************************************************)
(* The blur listener of a cell of the initial draft row (lines 387-414).   *)
(***************************************************************************)
\* a row object that gets a key only for the cells that hold text
NewDataOfFilledCells(cells) ==
    LET filled == SelectSeq(Fields,
                    LAMBDA f : cells[CHOOSE j \in 1..Len(Fields) : Fields[j] = f].text # <<>>)
    IN [id |-> Len(Data) + 1,
        keys |-> filled,
        val |-> [f \in {filled[j] : j \in 1..Len(filled)} |->
                   cells[CHOOSE j \in 1..Len(Fields) : Fields[j] = f].text]]

NewData(cells) ==
    [id |-> Len(Data) + 1,
     keys |-> Fields,
     val |-> [f \in {Fields[j] : j \in 1..Len(Fields)} |->
                cells[CHOOSE j \in 1..Len(Fields) : Fields[j] = f].text]]

UnshiftAsPush(data, row) == data \o <<row>>

Unshift(data, row) == <<row>> \o data

Commits(r, c) ==
    /\ grid[r].kind = "draft0"
    /\ ~TrimIsEmpty(grid[r].cells[c].text)
    /\ IsRowFilledOut(grid[r].cells)

DraftCommit(r) ==
    LET newData == NewData(grid[r].cells)
        v == StringOf(newData, Fields[1])
    IN /\ csvData' = [csvData EXCEPT !.data = Unshift(@, newData)]
       /\ edited' = TRUE
       /\ grid' = [grid EXCEPT ![r] = [kind |-> "rebuilt", rowIndex |-> -1,
                                       obj |-> newData.id, cells |-> <<NewCell(v)>>]]
       /\ reb' = [active |-> TRUE, colIndex |-> 0, row |-> newData.id, view |-> r]
       /\ pending' = Append(pending, RenderCall("reb", r, 1, v))
       /\ saves' = saves + 1
       /\ dirty' = FALSE

(***************************************************************************)
(* The blur listener of a data cell (lines 491-509), up to its await. The  *)
(* row is addressed by the index captured when the cell was built.         *)
(***************************************************************************)
TargetIndex(rv) == rv.rowIndex + 1

DataCommits(r, c) ==
    /\ grid[r].kind = "data"
    /\ grid[r].cells[c].ready
    /\ TargetIndex(grid[r]) \in 1..Len(Data)
    /\ Data[TargetIndex(grid[r])].val[Fields[c]] # grid[r].cells[c].text

DataCommit(r, c) ==
    LET newValue == grid[r].cells[c].text
    IN /\ csvData' = [csvData EXCEPT !.data[TargetIndex(grid[r])].val[Fields[c]] = newValue]
       /\ edited' = TRUE
       /\ grid' = [grid EXCEPT ![r].cells[c].md = <<>>]
       /\ pending' = Append(pending, RenderCall("blur", r, c, newValue))
       /\ dirty' = TRUE
       /\ UNCHANGED <<reb, saves>>

(***************************************************************************)
(* The focused edit surface loses focus.                                   *)
(***************************************************************************)
BlurEffect(r, c) ==
    IF Commits(r, c) THEN DraftCommit(r)
    ELSE IF DataCommits(r, c) THEN DataCommit(r, c)
    ELSE UNCHANGED <<csvData, edited, grid, reb, pending, saves, dirty>>

Blur ==
    /\ focus # None
    /\ focus' = None
    /\ typed' = FALSE
    /\ BlurEffect(focus[1], focus[2])
    /\ UNCHANGED <<fileText, header, mat, drag, loads, sessions, moves, rt>>

(***************************************************************************)
(* Enter without Shift. In a data cell (lines 512-518) it blurs the cell.  *)
(* In a cell of the initial draft row (lines 417-430) it focuses the next  *)
(* cell of the row, which blurs this one, or blurs this one when it is the *)
(* last; after a commit the next cell is no longer in the document.        *)
(***************************************************************************)
EnterKey ==
    LET r == focus[1]
        c == focus[2]
        toNext == grid[r].kind = "draft0" /\ c < Len(grid[r].cells) /\ ~Commits(r, c)
    IN /\ focus # None
       /\ IF grid[r].kind = "data" THEN grid[r].cells[c].ready ELSE grid[r].kind = "draft0"
       /\ typed' = FALSE
       /\ IF toNext
          THEN /\ sessions < MaxSessions
               /\ sessions' = sessions + 1
               /\ focus' = <<r, c + 1>>
               /\ grid' = OnDraftFocus(grid)
               /\ UNCHANGED <<csvData, edited, reb, pending, saves, dirty>>
          ELSE /\ focus' = None
               /\ BlurEffect(r, c)
               /\ UNCHANGED sessions
       /\ UNCHANGED <<fileText, header, mat, drag, loads, moves, rt>>

(***************************************************************************)
(* setupColumnResize (lines 708-764).                                      *)
(***************************************************************************)
\* mousedown without preventDefault: the press also takes the focus away
StartResizeTakesFocus(col, pageX, offsetWidth) ==
    /\ ~drag.active
    /\ col \in 1..Len(header)
    /\ drag' = [active |-> TRUE, col |-> col, startX |-> pageX, startWidth |-> offsetWidth,
                pageX |-> pageX]
    /\ IF focus # None
       THEN /\ focus' = None
            /\ typed' = FALSE
            /\ BlurEffect(focus[1], focus[2])
       ELSE UNCHANGED <<focus, typed, csvData, edited, grid, reb, pending, saves, dirty>>
    /\ UNCHANGED <<fileText, header, mat, loads, sessions, moves, rt>>

StartResize(col, pageX, offsetWidth) ==
    /\ ~drag.active
    /\ col \in 1..Len(header)
    /\ drag' = [active |-> TRUE, col |-> col, startX |-> pageX, startWidth |-> offsetWidth,
                pageX |-> pageX]
    /\ UNCHANGED <<fileText, csvData, edited, header, grid, mat, reb, pending, focus, saves, dirty,
                   loads, sessions, typed, moves, rt>>

MinWidth == 50

WidthAppliesAlways(w) == TRUE

\* "Set minimum width": a narrower request is not applied at all
WidthApplies(w) == w >= MinWidth

\* table.querySelectorAll('tr'): row.children[index], when the row has it
SetColumnWidth(g, col, w) ==
    [r \in 1..Len(g) |->
        IF col <= Len(g[r].cells) THEN [g[r] EXCEPT !.cells[col].width = w] ELSE g[r]]

NewWidth(d, pageX) == d.startWidth + (pageX - d.startX)

Resize(pageX) ==
    LET newWidth == NewWidth(drag, pageX)
    IN /\ drag.active
       /\ moves < MaxMoves
       /\ moves' = moves + 1
       /\ drag' = [drag EXCEPT !.pageX = pageX]
       /\ IF WidthApplies(newWidth)
          THEN /\ header' = [header EXCEPT ![drag.col] = newWidth]
               /\ grid' = SetColumnWidth(grid, drag.col, newWidth)
          ELSE UNCHANGED <<header, grid>>
       /\ UNCHANGED <<fileText, csvData, edited, mat, reb, pending, focus, saves, dirty,
                      loads, sessions, typed, rt>>

StopResize ==
    /\ drag.active
    /\ drag' = NoDrag
    /\ UNCHANGED <<fileText, csvData, edited, header, grid, mat, reb, pending, focus, saves, dirty,
                   loads, sessions, typed, moves, rt>>

Init ==
    /\ fileText = <<>>
    /\ csvData = Undefined
    /\ edited = FALSE
    /\ header = <<>>
    /\ grid = <<>>
    /\ mat = MatIdle
    /\ reb = RebIdle
    /\ pending = <<>>
    /\ focus = None
    /\ drag = NoDrag
    /\ saves = 0
    /\ dirty = FALSE
    /\ loads = 0
    /\ sessions = 0
    /\ typed = FALSE
    /\ moves = 0
    /\ rt = RtIdle

Cols == 1..2
Views == 1..Len(grid)

RenderSettles ==
    \/ \E k \in 1..Len(pending) : MatRendered(k)
    \/ \E k \in 1..Len(pending) : RebuildRendered(k)
    \/ \E k \in 1..Len(pending) : BlurRendered(k)
    \/ \E k \in 1..Len(pending) : OrphanRendered(k)
    \/ \E k \in 1..Len(pending) : RenderFailed(k)

(***************************************************************************)
(* The view under loads, renders and cell editing.                         *)
(***************************************************************************)
Next ==
    \/ Load
    \/ Clear
    \/ RenderSettles
    \/ \E r \in Views, c \in Cols : FocusCell(r, c)
    \/ \E v \in TypedValues : TypeText(v)
    \/ \E r \in Views, c \in Cols : DblClick(r, c)
    \/ Blur
    \/ EnterKey

Spec == Init /\ [][Next]_vars

(***************************************************************************)
(* The view under column drags, with the events that add rows and cells    *)
(* to the grid: loads, renders, draft focus and draft commit.              *)
(***************************************************************************)
NextResize ==
    \/ LoadForResize
    \/ \E k \in 1..Len(pending) : MatRendered(k)
    \/ \E k \in 1..Len(pending) : RebuildRendered(k)
    \/ \E r \in Views, c \in Cols : FocusCell(r, c)
    \/ TypeText(<<"5">>)
    \/ Blur
    \/ \E col \in Cols, x \in StartXs, w \in OffsetWidths : StartResize(col, x, w)
    \/ \E x \in PageXs : Resize(x)
    \/ StopResize

SpecResize == Init /\ [][NextResize]_vars

(***************************************************************************)
(* The codec round trip: a table T is serialized as getViewData serializes *)
(* the Table, the text is loaded with setViewData, getViewData is called,  *)
(* and its text is parsed.                                                 *)
(***************************************************************************)
CodecValues == { <<>>, <<"x">>, <<"y">>, <<SPACE>>, <<DELIM>>, <<QUOTE>>, <<LF>>, <<"x", QUOTE>> }

ColumnSeqs == { <<A>>, <<A, B>>, <<B, A>> }

RowsOver(fields) ==
    [keys : {fields}, val : [{fields[j] : j \in 1..Len(fields)} -> CodecValues]]

Tables ==
    UNION { UNION { [fields : {fields}, data : [1..n -> RowsOver(fields)]]
                    : n \in 0..MaxRows }
            : fields \in ColumnSeqs }

\* fields and rows of a parse result or table, without object identities
Content(t) ==
    [fields |-> t.fields,
     data |-> [i \in 1..Len(t.data) |-> t.data[i].val]]

InitCodec ==
    /\ fileText = <<>>
    /\ csvData = Undefined
    /\ edited = FALSE
    /\ header = <<>>
    /\ grid = <<>>
    /\ mat = MatIdle
    /\ reb = RebIdle
    /\ pending = <<>>
    /\ focus = None
    /\ drag = NoDrag
    /\ saves = 0
    /\ dirty = FALSE
    /\ loads = 0
    /\ sessions = 0
    /\ typed = FALSE
    /\ moves = 0
    /\ \E t \in Tables : rt = [phase |-> "table", table |-> t]

CodecSerialize ==
    /\ rt.phase = "table"
    /\ rt' = [phase |-> "text", table |-> rt.table, text |-> Unparse(rt.table.data)]
    /\ UNCHANGED uiVars

CodecLoad ==
    /\ rt.phase = "text"
    /\ SetViewData(rt.text)
    /\ rt' = [phase |-> "loaded", table |-> rt.table]

CodecGetViewData ==
    /\ rt.phase = "loaded"
    /\ rt' = [phase |-> "done", table |-> rt.table, back |-> Parse(GetViewData)]
    /\ UNCHANGED uiVars

NextCodec == CodecSerialize \/ CodecLoad \/ CodecGetViewData

SpecCodec == InitCodec /\ [][NextCodec]_vars

(***************************************************************************)
(* The older variant of the view (part_000, lines 4-306). Its renderTable  *)
(* builds the table detached from the document and appends it to the       *)
(* content element only after the data-row loop and all its awaits (line   *)
(* 144); it has no draft row. The cell handlers are those of the current   *)
(* variant. The loads keep one header, so that the field a handler has     *)
(* captured is the field of the same column of the current Table.          *)
(***************************************************************************)
OlderLoadTexts ==
    { <<"a", LF, "1", LF>>, <<"a", LF, "7", LF>> }

\* a data-row loop of renderTable suspended on the render of a cell of its
\* detached table
OlderCall(gen, res, rowIndex, colIndex, table, v) ==
    [cont |-> "older", view |-> 0, col |-> colIndex + 1, text |-> v, gen |-> gen,
     res |-> res, rowIndex |-> rowIndex, colIndex |-> colIndex, table |-> table]

OlderRow(gen, rowIndex, row, v) ==
    [kind |-> "data", rowIndex |-> rowIndex, obj |-> row.id, gen |-> gen,
     cells |-> <<NewCell(v)>>]

\* contentEl.empty(): the commits of the emptied grid go on to requestSave,
\* the loops of earlier loads go on building their detached tables
OlderOrphans(p) ==
    [i \in 1..Len(SelectSeq(p, LAMBDA x : x.cont \in {"blur", "orphan", "older"})) |->
        LET x == SelectSeq(p, LAMBDA y : y.cont \in {"blur", "orphan", "older"})[i]
        IN IF x.cont = "blur" THEN [x EXCEPT !.cont = "orphan"] ELSE x]

OlderSetViewData(data) ==
    LET parsed == Parse(data)
        rows == [i \in 1..Len(parsed.data) |->
                    [id |-> i, keys |-> parsed.data[i].keys, val |-> parsed.data[i].val]]
        res == [fields |-> parsed.fields, data |-> rows]
        n == Len(res.fields)
        hasRows == Len(rows) > 0 /\ n > 0
        v == StringOf(rows[1], res.fields[1])
    IN /\ loads < MaxOlderLoads
       /\ loads' = loads + 1
       /\ fileText' = data
       /\ csvData' = [defined |-> TRUE, fields |-> res.fields, data |-> rows]
       /\ edited' = FALSE
       /\ header' = [c \in 1..n |-> 0]
       /\ grid' = <<>>
       /\ pending' = OlderOrphans(pending) \o
                     (IF hasRows
                      THEN <<OlderCall(loads + 1, res, 0, 0,
                                       <<OlderRow(loads + 1, 0, rows[1], v)>>, v)>>
                      ELSE <<>>)
       /\ focus' = None
       /\ typed' = FALSE
       /\ dirty' = FALSE
       /\ UNCHANGED <<mat, reb, drag, saves, sessions, moves, rt>>

OlderLoad == \E data \in OlderLoadTexts : OlderSetViewData(data)

\* the loop resumes (lines 77-141): next cell, next row, or the end of the
\* loop and this.contentEl.appendChild(table) (line 144)
OlderMatRendered(k) ==
    LET p == pending[k]
        rest == RemoveAt(pending, k)
        last == Len(p.table)
        t == [p.table EXCEPT ![last].cells[p.colIndex + 1] =
                [@ EXCEPT !.md = Append(@, Rendered(p.text)), !.edit = FALSE, !.ready = TRUE]]
        c == p.colIndex + 1
        r == p.rowIndex + 1
    IN /\ p.cont = "older"
       /\ IF c < Len(p.res.fields)
          THEN LET v == StringOf(p.res.data[r], p.res.fields[c + 1])
               IN /\ pending' = Append(rest,
                        OlderCall(p.gen, p.res, p.rowIndex, c,
                                  [t EXCEPT ![last].cells = Append(@, NewCell(v))], v))
                  /\ grid' = grid
          ELSE IF r < Len(p.res.data)
          THEN LET row == p.res.data[r + 1]
                   v == StringOf(row, p.res.fields[1])
               IN /\ pending' = Append(rest,
                        OlderCall(p.gen, p.res, r, 0,
                                  Append(t, OlderRow(p.gen, r, row, v)), v))
                  /\ grid' = grid
          ELSE /\ pending' = rest
               /\ grid' = grid \o t
       /\ UNCHANGED <<fileText, csvData, edited, header, mat, reb, focus, drag, saves, dirty,
                      loads, sessions, typed, moves, rt>>

NextOlder ==
    \/ OlderLoad
    \/ \E k \in 1..Len(pending) : OlderMatRendered(k)
    \/ \E k \in 1..Len(pending) : BlurRendered(k)
    \/ \E k \in 1..Len(pending) : OrphanRendered(k)
    \/ \E k \in 1..Len(pending) : RenderFailed(k)
    \/ \E r \in Views, c \in Cols : FocusCell(r, c)
    \/ \E v \in TypedValues : TypeText(v)
    \/ \E r \in Views, c \in Cols : DblClick(r, c)
    \/ Blur
    \/ EnterKey

SpecOlder == Init /\ [][NextOlder]_vars

(***************************************************************************)
(* Steps and states the properties speak about.                            *)
(***************************************************************************)
\* a step of the loaded grid: neither a load nor a clear
SameGrid == loads' = loads /\ Len(grid') >= Len(grid)

\* the focused cell (r, c) loses focus by a blur or by Enter
FocusLeaves(r, c) ==
    /\ focus = <<r, c>>
    /\ focus' # focus
    /\ SameGrid
    /\ Len(pending') >= Len(pending)

DataCellLosesFocus(r, c) ==
    /\ FocusLeaves(r, c)
    /\ grid[r].kind = "data"
    /\ grid[r].cells[c].ready

\* the Table's value for the row a row view displays
Shown(r, c) == RowById(Data, grid[r].obj).val[Fields[c]]

DraftCommitted == SameGrid /\ Len(Data') = Len(Data) + 1

SomeFilled(cells) == \E c \in 1..Len(cells) : ~TrimIsEmpty(cells[c].text)
SomeBlank(cells) == \E c \in 1..Len(cells) : TrimIsEmpty(cells[c].text)

HeaderLine(fields) == Flatten([i \in 1..Len(fields) |-> Safe(fields[i])], <<DELIM>>)

(***************************************************************************)
(* C1. Draft-row all-or-nothing: in a table of at least two columns, when  *)
(* a draft cell loses focus while some field of its row is non-blank and   *)
(* some field is blank, no row is added, the row stays a draft and         *)
(* requestSave is not called; when every field is non-blank, exactly one   *)
(* row is added, at index 0.                                               *)
(***************************************************************************)
C1_DraftAllOrNothing ==
    [][\A r \in 1..Len(grid) : \A c \in 1..Len(grid[r].cells) :
        (FocusLeaves(r, c) /\ IsDraft(grid[r]) /\ Len(Fields) >= 2) =>
            /\ (SomeFilled(grid[r].cells) /\ SomeBlank(grid[r].cells)) =>
                    /\ Data' = Data
                    /\ IsDraft(grid'[r])
                    /\ saves' = saves
            /\ ~SomeBlank(grid[r].cells) =>
                    /\ Len(Data') = Len(Data) + 1
                    /\ Tail(Data') = Data]_vars

(***************************************************************************)
(* C2. Draft perpetuity: right after a draft row commits, the grid holds   *)
(* exactly one draft row, and it is above every data row.                  *)
(***************************************************************************)
C2_DraftPerpetuity ==
    [][DraftCommitted =>
        /\ Cardinality(NewRows(grid')) = 1
        /\ \A d \in NewRows(grid') : \A x \in (1..Len(grid')) \ NewRows(grid') : d < x]_vars

(***************************************************************************)
(* C3. A draft-row commit inserts at index 0 of the Table a row whose      *)
(* value for every column is the text of the draft row's cell for that     *)
(* column, and keeps every earlier row, unchanged and in order, one index  *)
(* further down.                                                           *)
(***************************************************************************)
C3_CommitInsertsAtTop ==
    [][DraftCommitted =>
        /\ focus # None
        /\ DOMAIN Data'[1].val = {Fields[c] : c \in 1..Len(Fields)}
        /\ \A c \in 1..Len(Fields) :
              Data'[1].val[Fields[c]] = grid[focus[1]].cells[c].text
        /\ Tail(Data') = Data]_vars

\* a draft row was committed above two loaded rows
C3_Witness ==
    /\ Len(Data) = 3
    /\ \E r \in 1..Len(grid) : grid[r].kind = "rebuilt" /\ grid[r].obj = Data[1].id
    /\ Data[1].val[Fields[1]] = <<"5">>
    /\ Data[2].val[Fields[1]] = <<"1">>

(***************************************************************************)
(* C4. A commit of a data cell whose buffer differs from the Table sets    *)
(* the Table's value at the row this cell displays and at this cell's      *)
(* field to the buffer, and changes no other value of the Table; also      *)
(* after a draft-row commit has prepended a row.                           *)
(***************************************************************************)
C4_CellCommitWritesShownRow ==
    [][\A r \in 1..Len(grid) : \A c \in 1..Len(grid[r].cells) :
        (DataCellLosesFocus(r, c) /\ grid[r].cells[c].text # Shown(r, c)) =>
            Data' = [Data EXCEPT ![IndexOfId(Data, grid[r].obj)].val[Fields[c]] =
                                    grid[r].cells[c].text]]_vars

(***************************************************************************)
(* C5. Idempotence of an unchanged commit: when a data cell loses focus    *)
(* while its buffer equals the Table's value for the cell, the Table and   *)
(* the serialized output are unchanged, the renderer is not called and     *)
(* requestSave is not called.                                              *)
(***************************************************************************)
C5_UnchangedCommitIsNoOp ==
    [][\A r \in 1..Len(grid) : \A c \in 1..Len(grid[r].cells) :
        (DataCellLosesFocus(r, c) /\ grid[r].cells[c].text = Shown(r, c)) =>
            /\ csvData' = csvData
            /\ GetViewData' = GetViewData
            /\ pending' = pending
            /\ saves' = saves]_vars

(***************************************************************************)
(* C6. Round trip: for every table T with unique column names and any      *)
(* number of rows, loading serialize(T) and calling getViewData yields a   *)
(* text that parses to T's column sequence and T's rows, same values in    *)
(* the same order.                                                         *)
(***************************************************************************)
C6_RoundTrip ==
    rt.phase = "done" => Content(rt.back) = Content(rt.table)

(***************************************************************************)
(* C7. A Table with columns and no rows serializes to the header line      *)
(* alone; a Table with no columns serializes to the empty text.            *)
(***************************************************************************)
C7_EmptyTableKeepsHeader ==
    (Loaded /\ Len(Data) = 0) => GetViewData = HeaderLine(Fields)

\* a mousemove of a resize drag
ResizeMove == moves' = moves + 1

ColumnCells(g, col) == {r \in 1..Len(g) : col <= Len(g[r].cells)}

C9_MutationIsSaved ==
    pending = <<>> => ~dirty

(***************************************************************************)
(* C10. getViewData never fails: before any setViewData and after loading  *)
(* the empty text it returns the empty text; after loading a text with at  *)
(* least one data row and before any edit it returns the serialization of  *)
(* exactly the parsed rows.                                                *)
(***************************************************************************)
C10_GetViewDataAnyTime ==
    /\ GetViewData # <<"TypeError">>
    /\ ~Loaded => GetViewData = <<>>
    /\ (Loaded /\ ~edited /\ fileText = <<>>) => GetViewData = <<>>
    /\ (Loaded /\ ~edited /\ Len(Parse(fileText).data) >= 1) =>
          /\ GetViewData = Unparse(Parse(fileText).data)
          /\ Content(Parse(GetViewData)) = Content(Parse(fileText))

\* rows are loaded, a cell was opened for editing, nothing was committed
C10_Witness ==
    /\ Loaded
    /\ ~edited
    /\ Len(Data) = 2
    /\ focus # None
    /\ grid[focus[1]].kind = "data"
    /\ typed
\* a render started by a commit of data cell (r, c) is in flight
RenderInFlight(p, r, c) ==
    \E k \in 1..Len(p) : p[k].cont = "blur" /\ p[k].view = r /\ p[k].col = c

(***************************************************************************)
(* C11. Every commit trigger (focus loss, Enter without Shift) on a data   *)
(* cell in Editing brings the cell back to Display, whether the buffer     *)
(* differs from the Table's value or equals it. Only the continuation of a *)
(* commit's render hides the edit surface, so right after the trigger the  *)
(* cell is in Display or such a render is in flight.                       *)
(***************************************************************************)
C11_CommitTriggerLeavesEditing ==
    [][\A r \in 1..Len(grid) : \A c \in 1..Len(grid[r].cells) :
        DataCellLosesFocus(r, c) =>
            \/ ~grid'[r].cells[c].edit
            \/ RenderInFlight(pending', r, c)]_vars

(***************************************************************************)
(* C12. Render supersession: when two commits of the same data cell have   *)
(* started two renders and both have completed, in any order, the cell's   *)
(* projection is the rendering of the Table's current value only, with no  *)
(* content of the older render left.                                       *)
(***************************************************************************)
C12_NewerRenderSupersedes ==
    \A r \in 1..Len(grid) : \A c \in 1..Len(grid[r].cells) :
        (/\ grid[r].kind = "data"
         /\ grid[r].cells[c].ready
         /\ ~RenderInFlight(pending, r, c)
         /\ Len(grid[r].cells[c].md) >= 2
         /\ TargetIndex(grid[r]) \in 1..Len(Data)) =>
            grid[r].cells[c].md =
                <<Rendered(Data[TargetIndex(grid[r])].val[Fields[c]])>>

\* the render of a data-cell commit rejects
CommitRenderFails(k) ==
    /\ k \in 1..Len(pending)
    /\ pending[k].cont = "blur"
    /\ pending' = RemoveAt(pending, k)
    /\ saves' = saves
    /\ grid' = grid

(***************************************************************************)
(* C13. When the render started by a data-cell commit fails, the cell ends *)
(* in Display showing its previously rendered projection, and the rest of  *)
(* the grid is as it was.                                                  *)
(***************************************************************************)
C13_FailedRenderKeepsProjection ==
    [][\A k \in 1..Len(pending) :
        (CommitRenderFails(k) /\ ~RenderInFlight(pending', pending[k].view, pending[k].col)) =>
            LET cell == grid'[pending[k].view].cells[pending[k].col]
            IN /\ ~cell.edit
               /\ cell.md # <<>>]_vars

(***************************************************************************)
(* C14. After a draft row commits, the cells of the converted row behave   *)
(* like the cells of a loaded data row: a commit trigger on a cell of the  *)
(* converted row whose buffer differs from the Table writes the buffer to  *)
(* that row's field in the Table and starts the cell's re-render.          *)
(***************************************************************************)
C14_ConvertedRowCommits ==
    [][\A r \in 1..Len(grid) : \A c \in 1..Len(grid[r].cells) :
        (/\ FocusLeaves(r, c)
         /\ grid[r].kind = "rebuilt"
         /\ grid[r].cells[c].ready
         /\ grid[r].cells[c].text # Shown(r, c)) =>
            /\ Data' = [Data EXCEPT ![IndexOfId(Data, grid[r].obj)].val[Fields[c]] =
                                      grid[r].cells[c].text]
            /\ RenderInFlight(pending', r, c)]_vars

\* every cell of the row holds only whitespace
AllBlank(cells) ==
    \A c \in 1..Len(cells) : \A i \in 1..Len(cells[c].text) : IsWhite(cells[c].text[i])

NoneBlank(cells) ==
    \A c \in 1..Len(cells) : \E i \in 1..Len(cells[c].text) : ~IsWhite(cells[c].text[i])

(***************************************************************************)
(* C15. The add-row affordance is perpetually available: whichever draft   *)
(* row is present, the initial one or one spawned by the focus protocol,   *)
(* it commits when all its fields are filled and a cell of it loses focus: *)
(* one row is added to the Table.                                          *)
(***************************************************************************)
C15_EveryDraftRowCommits ==
    [][\A r \in 1..Len(grid) : \A c \in 1..Len(grid[r].cells) :
        (FocusLeaves(r, c) /\ IsDraft(grid[r]) /\ NoneBlank(grid[r].cells)) =>
            Len(Data') = Len(Data) + 1]_vars

\* a draft cell gains focus
DraftGainsFocus ==
    /\ loads' = loads
    /\ focus' # None
    /\ focus' # focus
    /\ focus'[1] \in 1..Len(grid)
    /\ IsDraft(grid[focus'[1]])

(***************************************************************************)
(* C16. Spawn on focus: when a draft cell gains focus while the grid has   *)
(* exactly one draft row, exactly one new blank draft row is added and it  *)
(* is above all data rows; when the grid has two draft rows, none is       *)
(* added.                                                                  *)
(***************************************************************************)
C16_SpawnOnFocus ==
    [][DraftGainsFocus =>
        IF Cardinality(NewRows(grid)) = 1
        THEN /\ Len(grid') = Len(grid) + 1
             /\ Cardinality(NewRows(grid')) = 2
             /\ \E n \in NewRows(grid') :
                   /\ AllBlank(grid'[n].cells)
                   /\ RemoveAt(grid', n) = grid
                   /\ \A x \in (1..Len(grid')) \ NewRows(grid') : n < x
        ELSE grid' = grid]_vars

(***************************************************************************)
(* C17. When a draft cell loses focus while every field of its draft row   *)
(* is blank (empty or whitespace only), the Table is unchanged, the row    *)
(* stays a draft, no render is started and requestSave is not called.      *)
(***************************************************************************)
C17_BlankDraftIsDiscarded ==
    [][\A r \in 1..Len(grid) : \A c \in 1..Len(grid[r].cells) :
        (FocusLeaves(r, c) /\ IsDraft(grid[r]) /\ AllBlank(grid[r].cells)) =>
            /\ csvData' = csvData
            /\ grid'[r] = grid[r]
            /\ pending' = pending
            /\ saves' = saves]_vars

\* a draft cell holding only a blank was left, above a loaded row
C17_Witness ==
    /\ focus = None
    /\ sessions >= 1
    /\ Len(grid) >= 2
    /\ grid[1].kind = "draft0"
    /\ grid[1].cells[1].text = <<SPACE>>
    /\ Len(Data) = 1
    /\ saves = 0

FieldSet(fields) == {fields[j] : j \in 1..Len(fields)}

C19_BufferIsTableValue ==
    \A r \in 1..Len(grid) : \A c \in 1..Len(grid[r].cells) :
        (/\ grid[r].kind \in {"data", "rebuilt"}
         /\ grid[r].cells[c].ready
         /\ ~grid[r].cells[c].edit) =>
            grid[r].cells[c].text = Shown(r, c)

(***************************************************************************)
(* C20. Uniform column width: in every state after a drag applied a width  *)
(* to a column, the header cell and the cell of every row in that column   *)
(* carry the same width, including rows materialized after the drag by a   *)
(* draft-row spawn or a draft-row commit.                                  *)
(***************************************************************************)
C20_UniformColumnWidth ==
    \A col \in 1..Len(header) :
        header[col] # 0 =>
            \A r \in ColumnCells(grid, col) : grid[r].cells[col].width = header[col]

\* getViewData, for a given value of this.csvData
ViewDataOf(cd) == IF cd # Undefined THEN Unparse(cd.data) ELSE <<>>

\* a mousedown on a resize handle, a mousemove or a mouseup of a drag
ResizeEvent == loads' = loads /\ (drag' # drag \/ moves' # moves)

\* the Display/Editing state of the cells: surfaces shown, buffers, projections
EditState(g) ==
    [r \in 1..Len(g) |->
        [c \in 1..Len(g[r].cells) |->
            [g[r].cells[c] EXCEPT !.width = 0]]]

\* the width of the header cell or of a cell that stays in the grid changes
WidthChanges ==
    \/ /\ Len(header') = Len(header)
       /\ header' # header
    \/ \E r \in 1..Len(grid) :
          /\ r <= Len(grid')
          /\ grid'[r].kind = grid[r].kind
          /\ \E c \in 1..Len(grid[r].cells) :
                /\ c <= Len(grid'[r].cells)
                /\ grid'[r].cells[c].width # grid[r].cells[c].width

(***************************************************************************)
(* C21. No resize event (drag-start, drag-move, drag-end) changes the      *)
(* Table, the result of getViewData or any cell's Display/Editing state,   *)
(* and none calls requestSave; column widths change only on a drag-move    *)
(* between a drag-start and the next drag-end.                             *)
(***************************************************************************)
C21_ResizeIsPresentationOnly ==
    [][/\ ResizeEvent =>
            /\ csvData' = csvData
            /\ LET after == csvData' IN ViewDataOf(after) = GetViewData
            /\ EditState(grid') = EditState(grid)
            /\ focus' = focus
            /\ pending' = pending
            /\ saves' = saves
       /\ (loads' = loads /\ WidthChanges) =>
            /\ drag.active
            /\ moves' = moves + 1]_vars

\* a drag-move applied a width while a cell was being edited
C21_Witness ==
    /\ drag.active
    /\ moves >= 1
    /\ header[drag.col] >= MinWidth
    /\ focus # None
    /\ typed
    /\ grid[focus[1]].cells[drag.col].width = header[drag.col]

(***************************************************************************)
(* C22. A reload fully replaces the Table: after setViewData(t2) on a view *)
(* that loaded t1, whatever edits were made, renders are pending or the    *)
(* materialization of t1 is unfinished, the Table is the parse of t2 until *)
(* the next user commit on the new grid: the Table changes only by a       *)
(* commit in a cell that the latest load has built.                        *)
(***************************************************************************)
C22_ReloadReplacesTable ==
    [][(loads' = loads /\ csvData' # csvData) =>
        /\ focus # None
        /\ grid[focus[1]].gen = loads]_vars

\* the row views that show Table rows, in grid order
DataViews(g) == SelectSeq(g, LAMBDA rv : rv.kind \in {"data", "rebuilt"})

\* the loops have ended and none was cut short by a failed render
MaterializationCompleted ==
    /\ Loaded
    /\ grid # <<>>
    /\ ~mat.active
    /\ ~reb.active
    /\ \A r \in 1..Len(grid) :
          grid[r].kind \in {"data", "rebuilt"} =>
              /\ Len(grid[r].cells) = Len(Fields)
              /\ \A c \in 1..Len(grid[r].cells) : grid[r].cells[c].ready

(***************************************************************************)
(* C23. Once the materialization started by a load has completed, the      *)
(* grid's data row-views correspond one-to-one and in order to the Table's *)
(* rows (none shown twice, none missing), also when a draft-row commit     *)
(* happened while the materialization was suspended on a render.           *)
(***************************************************************************)
C23_OneViewPerTableRow ==
    MaterializationCompleted =>
        /\ Len(DataViews(grid)) = Len(Data)
        /\ \A i \in 1..Len(Data) : DataViews(grid)[i].obj = Data[i].id

(***************************************************************************)
(* C24. After clear() the view keeps no state of the previously loaded     *)
(* file: getViewData returns the empty text until the next setViewData.    *)
(***************************************************************************)
C24_ClearForgetsTable ==
    (Loaded /\ grid = <<>>) => GetViewData = <<>>

(***************************************************************************)
(* C25. In every reachable state of a loaded grid, under any sequence of   *)
(* draft-cell focus events, draft-cell blur events and draft commits, the  *)
(* number of draft rows is 1 or 2: never 0 and never more than 2.          *)
(***************************************************************************)
C25_OneOrTwoDraftRows ==
    grid # <<>> => Cardinality(NewRows(grid)) \in {1, 2}

\* after a commit, a focus on the remaining draft row has spawned another
C25_Witness ==
    /\ \E r \in 1..Len(grid) : grid[r].kind = "rebuilt"
    /\ Cardinality(NewRows(grid)) = 2
    /\ focus # None
    /\ IsDraft(grid[focus[1]])

=============================================================================
